---- MODULE Spec2Model ----
(***************************************************************************)
(* Model of the filter-and-derive pipeline of the Dubai real-estate        *)
(* dashboard (src/app.py).  The script is run top to bottom once after     *)
(* load and once more after every sidebar interaction: sidebar options,    *)
(* the boolean-mask filter, the tab aggregates, the building_age column    *)
(* assignment, and the full-table display with its CSV export.             *)
(*                                                                         *)
(* A cell is a tuple: <<>> is a missing value (NaN / None / NaT), <<v>> a  *)
(* present value v.  Prices, yields and means are decimals; a price p is   *)
(* held in half units (3 stands for 1.5), a mean as the fraction num/den.  *)
(***************************************************************************)
EXTENDS Integers, Sequences, FiniteSets

VARIABLES df, selected_area, selected_type, selected_furnishing, price_range,
          selected_beds, filtered_df, area_counts, avg_price, top_price,
          top_yield, table, pc, raised

vars == <<df, selected_area, selected_type, selected_furnishing, price_range,
          selected_beds, filtered_df, area_counts, avg_price, top_price,
          top_yield, table, pc, raised>>

\* Largest number of rows of a loaded spreadsheet.
MaxRows == 2

\* default=list(areas)[:5]
DefaultAreas == 5

\* .head(20) of the per-area series
HeadAreas == 20

\* .head(10) of the sorted listings
TopCount == 10

----------------------------------------------------------------------------
\* Cells

NA == <<>>

Cell(v) == <<v>>

isna(c) == c = NA

notna(c) == c # NA

Val(c) == c[1]

Range(s) == {s[i] : i \in DOMAIN s}

Min(a, b) == IF a <= b THEN a ELSE b

----------------------------------------------------------------------------
\* The spreadsheet

\* Column order of the sheet, as read by read_excel.
Columns == <<"area_name", "type", "furnishing", "price", "beds",
             "rental_yield", "post_date", "year_of_completion">>

\* Rows a sheet may hold, after the coercions of load_data: numeric cells
\* that failed to parse are NA, post_date holds the year of the date.
Listings ==
  { [area_name |-> Cell("Marina"), type |-> Cell("Apartment"),
     furnishing |-> Cell("Furnished"), price |-> Cell(2), beds |-> Cell(2),
     rental_yield |-> Cell(5), post_date |-> Cell(2024),
     year_of_completion |-> Cell(2020)],
    [area_name |-> Cell("Marina"), type |-> Cell("Villa"),
     furnishing |-> Cell("Unfurnished"), price |-> Cell(4), beds |-> Cell(3),
     rental_yield |-> NA, post_date |-> Cell(2024),
     year_of_completion |-> Cell(2025)],
    [area_name |-> Cell("JLT"), type |-> Cell("Apartment"),
     furnishing |-> Cell("Furnished"), price |-> Cell(5), beds |-> Cell(2),
     rental_yield |-> Cell(7), post_date |-> Cell(2024),
     year_of_completion |-> NA],
    [area_name |-> Cell("JLT"), type |-> NA,
     furnishing |-> Cell("Furnished"), price |-> NA, beds |-> NA,
     rental_yield |-> Cell(5), post_date |-> Cell(2023),
     year_of_completion |-> Cell(2020)],
    [area_name |-> NA, type |-> Cell("Apartment"),
     furnishing |-> NA, price |-> Cell(4), beds |-> Cell(2),
     rental_yield |-> Cell(6), post_date |-> Cell(2024),
     year_of_completion |-> Cell(2010)] }

\* Sort order of the area names (groupby sorts its keys).
AreaOrder == <<"JLT", "Marina">>

\* A frame: its column names, its rows (each carrying its index label idx),
\* and whether it owns its data or shares the data of the loaded frame.
Frame(cols, rows, owns) == [columns |-> cols, rows |-> rows, owns |-> owns]

WithIndex(rows) ==
  [i \in DOMAIN rows |-> [c \in DOMAIN rows[i] \cup {"idx"} |->
                             IF c = "idx" THEN i ELSE rows[i][c]]]

SeqsUpTo(S, n) == UNION {[1..k -> S] : k \in 0..n}

load_data(sheet) == Frame(Columns, WithIndex(sheet), TRUE)

NoFrame == Frame(<<>>, <<>>, TRUE)

----------------------------------------------------------------------------
\* Sidebar options (lines 29-41)

RECURSIVE DistinctValues(_)
\* Series.unique(): the distinct values, in order of first appearance.
DistinctValues(s) ==
  IF s = <<>> THEN <<>>
  ELSE LET u == DistinctValues(SubSeq(s, 1, Len(s) - 1))
           x == s[Len(s)]
       IN IF x \in Range(u) THEN u ELSE Append(u, x)

\* frame[col].dropna().unique()
unique(frame, col) ==
  LET present(r) == notna(r[col])
      kept == SelectSeq(frame.rows, present)
  IN DistinctValues([i \in DOMAIN kept |-> Val(kept[i][col])])

\* list(s)[:n]
head(s, n) == SubSeq(s, 1, Min(n, Len(s)))

areas(frame) == unique(frame, "area_name")

types(frame) == Range(unique(frame, "type"))

furnishings(frame) == Range(unique(frame, "furnishing"))

beds(frame) == Range(unique(frame, "beds"))

\* The non-missing values of a column, as a set.
Present(frame, col) == {Val(r[col]) : r \in {x \in Range(frame.rows) : notna(x[col])}}

\* Series.min() / Series.max() skip missing values and are NaN when none
\* is left.
ColMin(frame, col) ==
  LET S == Present(frame, col)
  IN IF S = {} THEN NA ELSE Cell(CHOOSE m \in S : \A x \in S : m <= x)

ColMax(frame, col) ==
  LET S == Present(frame, col)
  IN IF S = {} THEN NA ELSE Cell(CHOOSE m \in S : \A x \in S : m >= x)

\* int(x) of a decimal held in half units: truncation toward zero.
IntOf(p) == IF p >= 0 THEN p \div 2 ELSE -((-p) \div 2)

\* int(NaN) raises ValueError.
IntRaises(c) == isna(c)

min_price(frame) == IntOf(Val(ColMin(frame, "price")))

max_price(frame) == IntOf(Val(ColMax(frame, "price")))

\* The positions of the range slider: whole numbers lo <= hi between the
\* slider's ends.
SliderRanges(frame) ==
  {<<lo, hi>> \in (min_price(frame)..max_price(frame)) \X
                  (min_price(frame)..max_price(frame)) : lo <= hi}

----------------------------------------------------------------------------
\* The filter (lines 43-50)

\* isin that takes an empty selection for "no constraint".
isin_or_all(c, values) == values = {} \/ (notna(c) /\ Val(c) \in values)

\* Series.isin(values): a missing cell is in no selection drawn from the
\* options, which hold no missing value.
isin(c, values) == notna(c) /\ Val(c) \in values

\* price >= bound, price <= bound: a comparison with NaN is False.  The
\* bound is a whole number, the price is in half units.
ge(c, bound) == notna(c) /\ Val(c) >= 2 * bound

\* The upper price bound taken as exclusive.
le_exclusive(c, bound) == notna(c) /\ Val(c) < 2 * bound

le(c, bound) == notna(c) /\ Val(c) <= 2 * bound

Mask(r, sa, st, sf, pr, sb) ==
  /\ isin(r.area_name, sa)
  /\ isin(r.type, st)
  /\ isin(r.furnishing, sf)
  /\ ge(r.price, pr[1])
  /\ le(r.price, pr[2])
  /\ isin(r.beds, sb)

\* A filtered frame that shares the data of the frame it was taken from.
BoolIndexShared(frame, rows) == Frame(frame.columns, rows, FALSE)

\* frame[mask]: the rows whose mask is True, in frame order, as a new frame
\* that owns its data.
BoolIndex(frame, rows) == Frame(frame.columns, rows, TRUE)

FilteredDf(frame, sa, st, sf, pr, sb) ==
  LET keep(r) == Mask(r, sa, st, sf, pr, sb)
  IN BoolIndex(frame, SelectSeq(frame.rows, keep))

----------------------------------------------------------------------------
\* Sorting, as sort_values does it: the keys that are present are ordered
\* (ties keep their earlier order), the missing ones follow in their earlier
\* order (na_position='last').

\* Missing keys ordered as the greatest value: first when descending.
KeyBeforeNaGreatest(a, b, ascending) ==
  \/ /\ isna(a) /\ notna(b) /\ ~ascending
  \/ /\ notna(a) /\ isna(b) /\ ascending
  \/ /\ notna(a) /\ notna(b)
     /\ IF ascending THEN Val(a) < Val(b) ELSE Val(a) > Val(b)

\* Whether key a is placed ahead of key b.
KeyBefore(a, b, ascending) ==
  \/ notna(a) /\ isna(b)
  \/ /\ notna(a) /\ notna(b)
     /\ IF ascending THEN Val(a) < Val(b) ELSE Val(a) > Val(b)

\* The place of element i of s when s is sorted by its keys.
Place(keys, i, ascending) ==
  1 + Cardinality({j \in DOMAIN keys :
        \/ KeyBefore(keys[j], keys[i], ascending)
        \/ ~KeyBefore(keys[i], keys[j], ascending) /\ j < i})

SortByKeys(s, keys, ascending) ==
  [k \in DOMAIN s |-> s[CHOOSE i \in DOMAIN s : Place(keys, i, ascending) = k]]

\* frame.sort_values(col, ascending=...)
sort_values(frame, col, ascending) ==
  Frame(frame.columns,
        SortByKeys(frame.rows, [i \in DOMAIN frame.rows |-> frame.rows[i][col]],
                   ascending),
        TRUE)

\* frame.sort_values(col, ascending=False).head(n)
topN(frame, col, n, ascending) ==
  LET sorted == sort_values(frame, col, ascending)
  IN Frame(sorted.columns, head(sorted.rows, n), TRUE)

----------------------------------------------------------------------------
\* Aggregates of tab 1 (lines 82-96)

\* Series.value_counts(): the rows per present value, most frequent first,
\* values of equal count in order of first appearance.
value_counts(frame, col) ==
  LET vals == unique(frame, col)
      count(v) == Cardinality({i \in DOMAIN frame.rows :
                                 frame.rows[i][col] = Cell(v)})
      entries == [i \in DOMAIN vals |-> [key |-> vals[i], count |-> count(vals[i])]]
  IN SortByKeys(entries, [i \in DOMAIN entries |-> Cell(entries[i].count)], FALSE)

RECURSIVE Sum(_)
Sum(s) == IF s = <<>> THEN 0 ELSE s[1] + Sum(Tail(s))

\* A mean: the fraction num/den, or NaN.
NaN == [kind |-> "nan", num |-> 0, den |-> 1]

Quotient(n, d) == [kind |-> "num", num |-> n, den |-> d]

\* Series.mean(): the mean of the present values; NaN when there is none.
mean(cells) ==
  LET present(c) == notna(c)
      kept == SelectSeq(cells, present)
  IN IF kept = <<>> THEN NaN
     ELSE Quotient(Sum([i \in DOMAIN kept |-> Val(kept[i])]), Len(kept))

\* Whether mean a is placed ahead of mean b by sort_values(ascending=False).
MeanBefore(a, b) ==
  \/ a.kind = "num" /\ b.kind = "nan"
  \/ a.kind = "num" /\ b.kind = "num" /\ a.num * b.den > b.num * a.den

\* groupby over every known key, whether a row of the frame holds it or not.
groupby_mean_all_keys(frame, by, col) ==
  LET cellsOf(k) ==
        LET member(r) == r[by] = Cell(k)
            rows == SelectSeq(frame.rows, member)
        IN [i \in DOMAIN rows |-> rows[i][col]]
  IN [i \in DOMAIN AreaOrder |->
        [key |-> AreaOrder[i], mean |-> mean(cellsOf(AreaOrder[i]))]]

\* frame.groupby(by)[col].mean(): one entry per present key, in key order.
groupby_mean(frame, by, col) ==
  LET present == Present(frame, by)
      isKey(k) == k \in present
      keys == SelectSeq(AreaOrder, isKey)
      cellsOf(k) ==
        LET member(r) == r[by] = Cell(k)
            rows == SelectSeq(frame.rows, member)
        IN [i \in DOMAIN rows |-> rows[i][col]]
  IN [i \in DOMAIN keys |-> [key |-> keys[i], mean |-> mean(cellsOf(keys[i]))]]

\* series.sort_values(ascending=False): greatest mean first, NaN last, ties
\* in their earlier order.
sort_means(entries) ==
  LET place(i) == 1 + Cardinality({j \in DOMAIN entries :
                    \/ MeanBefore(entries[j].mean, entries[i].mean)
                    \/ ~MeanBefore(entries[i].mean, entries[j].mean) /\ j < i})
  IN [k \in DOMAIN entries |-> entries[CHOOSE i \in DOMAIN entries : place(i) = k]]

\* frame.groupby('area_name')[col].mean().sort_values(ascending=False).head(20)
groupMean(frame, col) ==
  head(sort_means(groupby_mean(frame, "area_name", col)), HeadAreas)

----------------------------------------------------------------------------
\* The building-age column (line 138)

\* post_date.dt.year - year_of_completion: missing when either is missing.
building_age(r) ==
  IF isna(r.post_date) \/ isna(r.year_of_completion) THEN NA
  ELSE Cell(Val(r.post_date) - Val(r.year_of_completion))

\* frame[col] = values: the column is added (or overwritten) in place, one
\* value per row.
setitem(frame, col, values) ==
  Frame(IF col \in Range(frame.columns) THEN frame.columns
        ELSE Append(frame.columns, col),
        [i \in DOMAIN frame.rows |->
           [c \in DOMAIN frame.rows[i] \cup {col} |->
              IF c = col THEN values[i] ELSE frame.rows[i][c]]],
        frame.owns)

\* filtered_df['post_date'].dt.year - filtered_df['year_of_completion']
building_ages(frame) == [i \in DOMAIN frame.rows |-> building_age(frame.rows[i])]

\* frame.to_csv(index=False): the header row, then one line per row with
\* the cells in column order; the index is left out.
to_csv(frame) ==
  [header |-> frame.columns,
   lines |-> [i \in DOMAIN frame.rows |->
                [k \in DOMAIN frame.columns |-> frame.rows[i][frame.columns[k]]]]]

----------------------------------------------------------------------------
\* The script, run once after load and again after each interaction

Sheets == SeqsUpTo(Listings, MaxRows)

\* int(df["price"].min()) raises when no price is present (line 37).
SidebarRaises(frame) == IntRaises(ColMin(frame, "price"))

Init ==
  /\ df \in {load_data(sheet) : sheet \in Sheets}
  /\ selected_area = Range(head(areas(df), DefaultAreas))
  /\ selected_type = types(df)
  /\ selected_furnishing = furnishings(df)
  /\ raised = SidebarRaises(df)
  /\ price_range = IF raised THEN <<0, 0>> ELSE <<min_price(df), max_price(df)>>
  /\ selected_beds = IF raised THEN {} ELSE beds(df)
  /\ filtered_df = NoFrame
  /\ area_counts = <<>>
  /\ avg_price = <<>>
  /\ top_price = NoFrame
  /\ top_yield = NoFrame
  /\ table = [shown |-> NoFrame, csv |-> to_csv(NoFrame)]
  /\ pc = IF raised THEN "error" ELSE "filter"

\* A changed widget starts the script again from the top: every name the
\* script binds is bound anew.
Rerun ==
  /\ pc' = "filter"
  /\ filtered_df' = NoFrame
  /\ area_counts' = <<>>
  /\ avg_price' = <<>>
  /\ top_price' = NoFrame
  /\ top_yield' = NoFrame
  /\ table' = [shown |-> NoFrame, csv |-> to_csv(NoFrame)]
  /\ UNCHANGED <<df, raised>>

SetArea ==
  /\ pc = "idle"
  /\ \E sel \in SUBSET Range(areas(df)) :
       sel # selected_area /\ selected_area' = sel
  /\ Rerun
  /\ UNCHANGED <<selected_type, selected_furnishing, price_range, selected_beds>>

SetType ==
  /\ pc = "idle"
  /\ \E sel \in SUBSET types(df) :
       sel # selected_type /\ selected_type' = sel
  /\ Rerun
  /\ UNCHANGED <<selected_area, selected_furnishing, price_range, selected_beds>>

SetFurnishing ==
  /\ pc = "idle"
  /\ \E sel \in SUBSET furnishings(df) :
       sel # selected_furnishing /\ selected_furnishing' = sel
  /\ Rerun
  /\ UNCHANGED <<selected_area, selected_type, price_range, selected_beds>>

SetPriceRange ==
  /\ pc = "idle"
  /\ \E pr \in SliderRanges(df) :
       pr # price_range /\ price_range' = pr
  /\ Rerun
  /\ UNCHANGED <<selected_area, selected_type, selected_furnishing, selected_beds>>

SetBeds ==
  /\ pc = "idle"
  /\ \E sel \in SUBSET beds(df) :
       sel # selected_beds /\ selected_beds' = sel
  /\ Rerun
  /\ UNCHANGED <<selected_area, selected_type, selected_furnishing, price_range>>

\* Lines 43-50.
Filter ==
  /\ pc = "filter"
  /\ filtered_df' = FilteredDf(df, selected_area, selected_type,
                               selected_furnishing, price_range, selected_beds)
  /\ pc' = "tab1"
  /\ UNCHANGED <<df, selected_area, selected_type, selected_furnishing,
                 price_range, selected_beds, area_counts, avg_price,
                 top_price, top_yield, table, raised>>

\* Lines 82-96.
Tab1 ==
  /\ pc = "tab1"
  /\ area_counts' = head(value_counts(filtered_df, "area_name"), HeadAreas)
  /\ avg_price' = [price |-> groupMean(filtered_df, "price"),
                   rental_yield |-> groupMean(filtered_df, "rental_yield")]
  /\ pc' = "tab2"
  /\ UNCHANGED <<df, selected_area, selected_type, selected_furnishing,
                 price_range, selected_beds, filtered_df, top_price,
                 top_yield, table, raised>>

\* Lines 130-134.
Tab2 ==
  /\ pc = "tab2"
  /\ top_price' = topN(filtered_df, "price", TopCount, FALSE)
  /\ top_yield' = topN(filtered_df, "rental_yield", TopCount, FALSE)
  /\ pc' = "age"
  /\ UNCHANGED <<df, selected_area, selected_type, selected_furnishing,
                 price_range, selected_beds, filtered_df, area_counts,
                 avg_price, table, raised>>

\* Line 138: the column is assigned on filtered_df; the loaded frame is
\* written too when filtered_df shares its data.
BuildingAge ==
  /\ pc = "age"
  /\ filtered_df' = setitem(filtered_df, "building_age", building_ages(filtered_df))
  /\ df' = IF filtered_df.owns THEN df
           ELSE setitem(df, "building_age", building_ages(df))
  /\ pc' = "tab4"
  /\ UNCHANGED <<selected_area, selected_type, selected_furnishing,
                 price_range, selected_beds, area_counts, avg_price,
                 top_price, top_yield, table, raised>>

\* Lines 220-222.
Tab4 ==
  /\ pc = "tab4"
  /\ table' = [shown |-> filtered_df, csv |-> to_csv(filtered_df)]
  /\ pc' = "idle"
  /\ UNCHANGED <<df, selected_area, selected_type, selected_furnishing,
                 price_range, selected_beds, filtered_df, area_counts,
                 avg_price, top_price, top_yield, raised>>

Next ==
  \/ SetArea
  \/ SetType
  \/ SetFurnishing
  \/ SetPriceRange
  \/ SetBeds
  \/ Filter
  \/ Tab1
  \/ Tab2
  \/ BuildingAge
  \/ Tab4

Spec == Init /\ [][Next]_vars

----------------------------------------------------------------------------
\* Properties

\* The filter has run and the building-age column has not yet been assigned:
\* filtered_df is the view as the filter produced it.
Viewed == pc \in {"tab1", "tab2", "age"}

\* The view of the current run under other selections.
ViewOf(sa, st, sf, pr, sb) == FilteredDf(df, sa, st, sf, pr, sb)

\* C1: for each multi-valued criterion (area, type, furnishing, beds) and
\* the current values of the others, an empty selection yields the same
\* view as the selection of every available value.
C1_EmptySelectionMatchesAll ==
  pc # "error" =>
    /\ ViewOf({}, selected_type, selected_furnishing, price_range, selected_beds)
       = ViewOf(Range(areas(df)), selected_type, selected_furnishing,
                price_range, selected_beds)
    /\ ViewOf(selected_area, {}, selected_furnishing, price_range, selected_beds)
       = ViewOf(selected_area, types(df), selected_furnishing, price_range,
                selected_beds)
    /\ ViewOf(selected_area, selected_type, {}, price_range, selected_beds)
       = ViewOf(selected_area, selected_type, furnishings(df), price_range,
                selected_beds)
    /\ ViewOf(selected_area, selected_type, selected_furnishing, price_range, {})
       = ViewOf(selected_area, selected_type, selected_furnishing, price_range,
                beds(df))

\* C2: with every available value selected and the price range at the
\* slider's full extent, the view has the rows of the loaded frame, in the
\* same order, and its columns.
C2_FullCriteriaIsIdentity ==
  pc # "error" =>
    LET full == ViewOf(Range(areas(df)), types(df), furnishings(df),
                       <<min_price(df), max_price(df)>>, beds(df))
    IN full.rows = df.rows /\ full.columns = df.columns

\* Whether a row of the loaded frame satisfies the five predicates of the
\* current criteria; a missing cell satisfies none.
Satisfies(r) ==
  /\ r.area_name # NA /\ r.area_name[1] \in selected_area
  /\ r.type # NA /\ r.type[1] \in selected_type
  /\ r.furnishing # NA /\ r.furnishing[1] \in selected_furnishing
  /\ r.price # NA
  /\ 2 * price_range[1] <= r.price[1] /\ r.price[1] <= 2 * price_range[2]
  /\ r.beds # NA /\ r.beds[1] \in selected_beds

\* C3: the view is the subsequence of the loaded frame, in frame order, of
\* exactly the rows that satisfy all five predicates (price bounds
\* inclusive).
C3_ViewIsMatchingSubsequence ==
  Viewed =>
    LET v == filtered_df.rows
    IN /\ filtered_df.columns = df.columns
       /\ \A j \in DOMAIN v : v[j].idx \in DOMAIN df.rows /\ v[j] = df.rows[v[j].idx]
       /\ \A j, k \in DOMAIN v : j < k => v[j].idx < v[k].idx
       /\ \A i \in DOMAIN df.rows :
            (\E j \in DOMAIN v : v[j].idx = i) <=> Satisfies(df.rows[i])

\* C3 witness: a view that keeps some rows and drops others, one of the kept
\* rows holding a price equal to a bound of the range.
C3_Witness ==
  /\ Viewed
  /\ Len(filtered_df.rows) > 0
  /\ Len(filtered_df.rows) < Len(df.rows)
  /\ \E j \in DOMAIN filtered_df.rows :
       filtered_df.rows[j].price = Cell(2 * price_range[2])

\* The selections one value smaller than sel.
OneLess(sel) == {sel \ {x} : x \in sel}

\* The price ranges strictly inside pr.
Inside(pr) ==
  {q \in SliderRanges(df) : pr[1] <= q[1] /\ q[2] <= pr[2] /\ q # pr}

\* C4: narrowing one criterion of the current criteria (one value removed
\* from a non-empty selection, or the price interval shrunk), the others
\* unchanged, yields a view with no more rows than the current view.
C4_NarrowingNeverGrows ==
  Viewed =>
    LET n == Len(filtered_df.rows)
    IN /\ \A sa \in OneLess(selected_area) :
            Len(ViewOf(sa, selected_type, selected_furnishing, price_range,
                       selected_beds).rows) <= n
       /\ \A st \in OneLess(selected_type) :
            Len(ViewOf(selected_area, st, selected_furnishing, price_range,
                       selected_beds).rows) <= n
       /\ \A sf \in OneLess(selected_furnishing) :
            Len(ViewOf(selected_area, selected_type, sf, price_range,
                       selected_beds).rows) <= n
       /\ \A pr \in Inside(price_range) :
            Len(ViewOf(selected_area, selected_type, selected_furnishing, pr,
                       selected_beds).rows) <= n
       /\ \A sb \in OneLess(selected_beds) :
            Len(ViewOf(selected_area, selected_type, selected_furnishing,
                       price_range, sb).rows) <= n

\* C4 witness: a non-empty view under a single selected area, from which
\* removing that area, and shrinking the price interval, each drop rows.
C4_Witness ==
  /\ Viewed
  /\ Cardinality(selected_area) = 1
  /\ Len(filtered_df.rows) >= 1
  /\ Len(ViewOf({}, selected_type, selected_furnishing, price_range,
                selected_beds).rows) = 0
  /\ \E pr \in Inside(price_range) :
       Len(ViewOf(selected_area, selected_type, selected_furnishing, pr,
                  selected_beds).rows) < Len(filtered_df.rows)

\* The aggregates of tab 1 have been computed in the current run.
Aggregated == pc \in {"tab2", "age", "tab4", "idle"}

\* The listings of tab 2 have been computed in the current run.
Listed == pc \in {"age", "tab4", "idle"}

\* The present values of column col among the rows of area k in the view.
GroupValues(k, col) ==
  LET member(r) == r.area_name = Cell(k) /\ r[col] # NA
      rows == SelectSeq(filtered_df.rows, member)
  IN [i \in DOMAIN rows |-> rows[i][col][1]]

\* C5: every reported group mean of price and of rental yield is, for a
\* group with a present value, the arithmetic mean of the group's present
\* values, and for a group with none a "no data" marker (not NaN, not 0).
C5_GroupMeanNoDataMarker ==
  pc = "tab2" =>
    \A col \in {"price", "rental_yield"} :
      \A i \in DOMAIN avg_price[col] :
        LET e == avg_price[col][i]
            vals == GroupValues(e.key, col)
        IN IF vals # <<>>
           THEN e.mean.kind = "num" /\ e.mean.num * Len(vals) = Sum(vals) * e.mean.den
           ELSE e.mean.kind = "nodata"

\* Columns a listing can be ordered by.
NumericColumns == {"price", "beds", "rental_yield", "year_of_completion"}

\* Rows t are ordered by col in the given direction, missing cells last.
Ordered(t, col, ascending) ==
  \A i, j \in DOMAIN t :
    i < j =>
      /\ ~(t[i][col] = NA /\ t[j][col] # NA)
      /\ (t[i][col] # NA /\ t[j][col] # NA) =>
           IF ascending THEN t[i][col][1] <= t[j][col][1]
           ELSE t[i][col][1] >= t[j][col][1]

\* C6: topN over the view, for every n >= 0, numeric column and direction,
\* has min(n, size of the view) rows, ordered in that direction with the
\* missing cells after the present ones; so have the two listings shown.
C6_TopN ==
  /\ Viewed =>
       \A n \in 0..(Len(filtered_df.rows) + 1), col \in NumericColumns,
          ascending \in BOOLEAN :
         LET t == topN(filtered_df, col, n, ascending).rows
         IN /\ Len(t) = Min(n, Len(filtered_df.rows))
            /\ Ordered(t, col, ascending)
  /\ pc = "age" =>
       /\ Len(top_price.rows) = Min(TopCount, Len(filtered_df.rows))
       /\ Len(top_yield.rows) = Min(TopCount, Len(filtered_df.rows))
       /\ Ordered(top_price.rows, "price", FALSE)
       /\ Ordered(top_yield.rows, "rental_yield", FALSE)

\* C6 witness: the yield listing of a view of two rows or more ends with a
\* row whose yield is missing, after a row whose yield is present.
C6_Witness ==
  /\ pc = "age"
  /\ Len(top_yield.rows) >= 2
  /\ top_yield.rows[1].rental_yield # NA
  /\ top_yield.rows[Len(top_yield.rows)].rental_yield = NA
  /\ filtered_df.rows[1].rental_yield = NA

\* C7: once the filter has produced the view, no later step of the run
\* changes it: it keeps the rows and the columns the filter gave it, and
\* the table shown and the CSV export carry the columns of the sheet.
C7_DeriveLeavesViewUnchanged ==
  /\ pc \in {"tab1", "tab2", "age", "tab4", "idle"} =>
       filtered_df = ViewOf(selected_area, selected_type, selected_furnishing,
                            price_range, selected_beds)
  /\ pc = "idle" =>
       table.shown.columns = Columns /\ table.csv.header = Columns

\* C8: a run whose criteria match no row raises nothing and every aggregate
\* of it is empty: the area counts, the group means, the two listings, the
\* table shown and the lines of the export; so is topN for every n.
C8_EmptyViewDegrades ==
  (pc \in {"tab1", "tab2", "age", "tab4", "idle"} /\ filtered_df.rows = <<>>) =>
    /\ ~raised
    /\ \A n \in 0..TopCount : topN(filtered_df, "price", n, FALSE).rows = <<>>
    /\ Aggregated =>
         /\ area_counts = <<>>
         /\ avg_price.price = <<>>
         /\ avg_price.rental_yield = <<>>
    /\ Listed => top_price.rows = <<>> /\ top_yield.rows = <<>>
    /\ pc = "idle" => table.shown.rows = <<>> /\ table.csv.lines = <<>>

\* C8 witness: a finished run over a loaded frame with rows whose criteria,
\* with every selection non-empty, match none of them.
C8_Witness ==
  /\ pc = "idle"
  /\ Len(df.rows) > 0
  /\ filtered_df.rows = <<>>
  /\ selected_area # {} /\ selected_type # {} /\ selected_furnishing # {}
  /\ selected_beds # {}

\* C9: no step changes the loaded frame.
C9_SourceUnchanged == [][df' = df]_vars

\* C9 witness: a finished run, after an interaction, whose view carries the
\* building-age column while the loaded frame does not.
C9_Witness ==
  /\ pc = "idle"
  /\ selected_area # Range(head(areas(df), DefaultAreas))
  /\ Len(filtered_df.rows) > 0
  /\ "building_age" \in Range(filtered_df.columns)
  /\ df.columns = Columns

\* C10: while the price range is the default one, its bounds are the least
\* and the greatest price present, and every row with a price lies within
\* the range.
C10_DefaultRangeIsObservedMinMax ==
  (pc # "error" /\ price_range = <<min_price(df), max_price(df)>>) =>
    /\ Cell(2 * price_range[1]) = ColMin(df, "price")
    /\ Cell(2 * price_range[2]) = ColMax(df, "price")
    /\ \A i \in DOMAIN df.rows :
         df.rows[i].price # NA =>
           /\ 2 * price_range[1] <= df.rows[i].price[1]
           /\ df.rows[i].price[1] <= 2 * price_range[2]
====
